---- MODULE Spec2Model ----
(***************************************************************************)
(* System Nexa 2 integration: the zeroconf config flow (config_flow.py),   *)
(* the per-entry websocket session (__init__.py) and the switch and light  *)
(* entities (switch.py, light.py), as a state machine.                     *)
(*                                                                         *)
(* Python strings that the code takes apart (version strings, names) are   *)
(* sequences of one-character strings.  Floating point values are exact    *)
(* thousandths (an integer k stands for k/1000) or one of the non-finite   *)
(* values.  A step of the model is the code between two suspension points  *)
(* (await on the transport, on a task, on sleep) of one asyncio task.      *)
(***************************************************************************)
EXTENDS Integers, Sequences, FiniteSets, TLC

(***************************************************************************)
(* Bounds of the model.                                                    *)
(***************************************************************************)
MaxResets == 2      \* device_reset frames a session receives
MaxSent == 2        \* frames transmitted on one connection
MaxVerLen == 3      \* characters of a version string, the fixed samples apart

(***************************************************************************)
(* Program constants.                                                      *)
(***************************************************************************)
DOMAIN_NAME == "systemnexa2"
SWITCH_MODELS == {"WBR-01"}
PLUG_MODELS == {"WPR-01", "WPO-01"}
LIGHT_MODELS == {"WBD-01", "WPD-01"}
MIN_VERSION == <<"0", ".", "9", ".", "5">>
INIT_BRIGHTNESS == 255
HA_MAX_BRIGHTNESS == 255

(***************************************************************************)
(* Strings.                                                                *)
(***************************************************************************)
Digits == <<"0", "1", "2", "3", "4", "5", "6", "7", "8", "9">>

IsDigit(c) == \E i \in 1..10 : Digits[i] = c

DigitVal(c) == (CHOOSE i \in 1..10 : Digits[i] = c) - 1

\* index of the first occurrence of sep in s, 0 when there is none
IndexOf(s, sep) ==
  IF \E i \in 1..Len(s) : s[i] = sep
    THEN CHOOSE i \in 1..Len(s) : s[i] = sep /\ \A j \in 1..(i - 1) : s[j] # sep
    ELSE 0

\* s.split(sep)[0]
SplitFirst(s, sep) ==
  IF IndexOf(s, sep) = 0 THEN s ELSE SubSeq(s, 1, IndexOf(s, sep) - 1)

\* s.split(sep): the parts between the separators, empty parts kept
RECURSIVE Split(_, _)
Split(s, sep) ==
  IF IndexOf(s, sep) = 0
    THEN <<s>>
    ELSE <<SubSeq(s, 1, IndexOf(s, sep) - 1)>>
           \o Split(SubSeq(s, IndexOf(s, sep) + 1, Len(s)), sep)

\* s.strip() for the one whitespace character of the alphabet
RECURSIVE Strip(_)
Strip(s) ==
  IF s = <<>> THEN s
  ELSE IF Head(s) = " " THEN Strip(Tail(s))
  ELSE IF s[Len(s)] = " " THEN Strip(SubSeq(s, 1, Len(s) - 1))
  ELSE s

\* int(part) succeeds: after stripping whitespace, an optional sign, then
\* digits, single underscores allowed between digits
IntLiteralOK(part) ==
  LET t == Strip(part)
      u == IF t # <<>> /\ Head(t) \in {"+", "-"} THEN Tail(t) ELSE t
  IN /\ u # <<>>
     /\ IsDigit(u[1])
     /\ IsDigit(u[Len(u)])
     /\ \A i \in 1..Len(u) : IsDigit(u[i]) \/ u[i] = "_"
     /\ \A i \in 1..(Len(u) - 1) : ~(u[i] = "_" /\ u[i + 1] = "_")

RECURSIVE DigitsValue(_)
DigitsValue(u) ==
  IF u = <<>> THEN 0
  ELSE IF u[Len(u)] = "_" THEN DigitsValue(SubSeq(u, 1, Len(u) - 1))
  ELSE 10 * DigitsValue(SubSeq(u, 1, Len(u) - 1)) + DigitVal(u[Len(u)])

\* int(part), defined when IntLiteralOK(part)
IntValue(part) ==
  LET t == Strip(part)
  IN IF Head(t) = "-" THEN 0 - DigitsValue(Tail(t))
     ELSE IF Head(t) = "+" THEN DigitsValue(Tail(t))
     ELSE DigitsValue(t)

(***************************************************************************)
(* config_flow.py: _is_version_compatible                                  *)
(***************************************************************************)
CleanVersion(v) == SplitFirst(SplitFirst(v, "-"), "+")

VersionParts(v) ==
  LET parts == Split(CleanVersion(v), ".")
  IN [i \in 1..Len(parts) |-> IntValue(parts[i])]

VersionParses(v) ==
  LET parts == Split(CleanVersion(v), ".")
  IN \A i \in 1..Len(parts) : IntLiteralOK(parts[i])

\* "while len(a) < len(b): a.append(0)"
PadTo(parts, n) ==
  [i \in 1..(IF Len(parts) < n THEN n ELSE Len(parts)) |->
     IF i <= Len(parts) THEN parts[i] ELSE 0]

\* "for v, m in zip(...)": the first differing component decides
RECURSIVE CompareParts(_, _)
CompareParts(vp, mp) ==
  IF vp = <<>> \/ mp = <<>> THEN TRUE
  ELSE IF Head(vp) > Head(mp) THEN TRUE
  ELSE IF Head(vp) < Head(mp) THEN FALSE
  ELSE CompareParts(Tail(vp), Tail(mp))

is_version_compatible(version, min_version) ==
  IF ~(VersionParses(version) /\ VersionParses(min_version))
    THEN FALSE     \* except (ValueError, IndexError): return False
    ELSE LET vp == VersionParts(version)
             mp == VersionParts(min_version)
         IN CompareParts(PadTo(vp, Len(mp)), PadTo(mp, Len(vp)))

(***************************************************************************)
(* State.                                                                  *)
(***************************************************************************)
VARIABLES
  \* the config flow
  flow_entries,   \* config entries the flow has created: a set of entry data
  flow_pending,   \* the discovery_info handed to async_step_zeroconf, if any
  flow_result,    \* what the last async_step_zeroconf returned, and for what
  \* Home Assistant
  config_entries, \* the entry ids hass.config_entries lists for the domain
  entry_data,     \* entry.data of every entry: CONF_TYPE and CONF_NAME
  entry_state,    \* "loaded", "not_loaded" or "failed_unload"
  entry_lock,     \* who holds the entry's setup lock: "free", "user" or "task", a removal task
  hass_data,      \* the entry ids that are keys of hass.data[DOMAIN]
  registry,       \* hass.data[DOMAIN][entity_id]: the entity registered under a key
  ha_state,       \* the state last written by async_write_ha_state, per entity
  writes,         \* async_write_ha_state calls the last step made, per entity
  \* device_info of every entry
  dev_type,       \* device_info["type"], set by the platform's async_setup_entry
  ws_client,      \* device_info["ws_client"]: "None", or "websocket": the
                  \* connection the task opened last
  available,      \* device_info["available"]
  entities,       \* device_info["entities"]
  \* the task running start_websocket_client
  task_pc,        \* where the task is suspended
  cancel_req,     \* ws_task.cancel() was called and not yet delivered
  conn_open,      \* whether the connection the task opened last is open
  sent,           \* frames transmitted on the connection the task opened last
  \* the entity of every entry
  entity,         \* _attr_is_on, _attr_brightness, _attr_available
  cmd,            \* the _send_command in flight, and how the last one ended
  \* teardown
  stop_pc,        \* stop_websocket_client, the EVENT_HOMEASSISTANT_STOP listener
  unload_pc,      \* async_unload_entry
  rm_tasks,       \* the async_remove_entry tasks process_message created, per point
  \* a function called on its own
  fn_call,        \* the arguments of the pending call, if any
  fn_result       \* the arguments and the result of the last call

flowVars == <<flow_entries, flow_pending, flow_result>>
fnVars == <<fn_call, fn_result>>
haVars == <<config_entries, entry_data, entry_state, entry_lock, hass_data, registry>>
infoVars == <<dev_type, ws_client, available, entities>>
taskVars == <<task_pc, cancel_req, conn_open, sent>>
entityVars == <<entity, ha_state, writes, cmd>>
downVars == <<stop_pc, unload_pc, rm_tasks>>
vars == <<flowVars, fnVars, haVars, infoVars, taskVars, entityVars, downVars>>

(***************************************************************************)
(* config_flow.py: async_step_zeroconf                                     *)
(***************************************************************************)
\* the version properties a device may advertise
Versions ==
  { <<"0", ".", "9", ".", "5">>, <<"0", ".", "9", ".", "4">>,
    <<"1", ".", "0">>, <<"0", ".", "9", ".", "5", "-", "b", ".", "2">>,
    <<"a", "b", "c">>, <<>>, <<"0", ".", "1", "0">>, <<"0", ".", "9">>,
    <<"0", ".", "9", ".", "5", "+", "7">>, <<"1", ".", ".", "0">> }

\* one model of every category, and one the integration does not know
ModelProps == {"WBR-01", "WPR-01", "WBD-01", "XYZ-99"}
IdProps == {<<"i", "d">>}
Hosts == {"10.0.0.1", "10.0.0.2"}
\* discovery_info.name: the instance name and the service suffix
DiscoveryNames == {<<"L", "a", "m", "p", ".", "_", "t", "c", "p">>}

\* discovery_info.properties: a dictionary that may lack any of its keys
PropertyDicts ==
  [model : ModelProps, version : Versions, id : IdProps] \cup
  [model : ModelProps, version : Versions] \cup
  [model : ModelProps, id : IdProps] \cup
  [version : Versions, id : IdProps] \cup
  [model : ModelProps] \cup [version : Versions] \cup [id : IdProps] \cup
  {<<>>}

DiscoveryInfos == [host : Hosts, name : DiscoveryNames, properties : PropertyDicts]

Abort(reason) == [kind |-> "abort", reason |-> reason]

\* lines 85-94: the device type, or "none" where the flow aborts instead
DeviceTypeOf(model) ==
  IF model \in PLUG_MODELS THEN "switch"
  ELSE IF model \in LIGHT_MODELS THEN "light"
  ELSE "none"

\* properties.get("id", name)
DeviceIdOf(info) ==
  IF "id" \in DOMAIN info.properties
    THEN info.properties.id
    ELSE SplitFirst(info.name, ".")

async_step_zeroconf(info, entries) ==
  LET name == SplitFirst(info.name, ".")
      props == info.properties
  IN IF "model" \notin DOMAIN props THEN Abort("not_supported")
     ELSE IF /\ props.model \notin SWITCH_MODELS
             /\ props.model \notin LIGHT_MODELS
             /\ props.model \notin PLUG_MODELS
       THEN Abort("unsupported_model")
     ELSE IF "version" \notin DOMAIN props THEN Abort("firmware_version_missing")
     ELSE IF ~is_version_compatible(props.version, MIN_VERSION)
       THEN Abort("firmware_version_incompatible")
     ELSE IF DeviceTypeOf(props.model) = "none" THEN Abort("not_supported")
     ELSE IF \E e \in entries : e.device_id = DeviceIdOf(info)
       THEN Abort("already_configured")
     ELSE [kind |-> "create_entry", reason |-> "",
           data |-> [host |-> info.host, name |-> name,
                     model |-> props.model, device_id |-> DeviceIdOf(info),
                     type |-> DeviceTypeOf(props.model)]]

\* _abort_if_unique_id_configured(updates={CONF_HOST: host})
UpdateHost(entries, device_id, host) ==
  {IF e.device_id = device_id THEN [e EXCEPT !.host = host] ELSE e : e \in entries}

(***************************************************************************)
(* Entries, names and registry keys.                                       *)
(***************************************************************************)
EntryIds == {"e1", "e2"}
Platforms == {"switch", "light"}
PlatformChars(t) ==
  IF t = "switch" THEN <<"s", "w", "i", "t", "c", "h">> ELSE <<"l", "i", "g", "h", "t">>
Names == {<<"L", "a", "m", "p">>}
\* the names of two devices set up side by side: two that differ only in
\* case and in a space against an underscore, and one unlike them
PairNames == {<<"M", "y", " ", "L">>, <<"m", "y", "_", "l">>, <<"H", "a", "l", "l">>}

UpperChars == <<"A", "B", "C", "D", "E", "F", "G", "H", "I", "J", "K", "L", "M",
                "N", "O", "P", "Q", "R", "S", "T", "U", "V", "W", "X", "Y", "Z">>
LowerChars == <<"a", "b", "c", "d", "e", "f", "g", "h", "i", "j", "k", "l", "m",
                "n", "o", "p", "q", "r", "s", "t", "u", "v", "w", "x", "y", "z">>

\* c.lower()
LowerChar(c) ==
  IF \E i \in 1..26 : UpperChars[i] = c
    THEN LowerChars[CHOOSE i \in 1..26 : UpperChars[i] = c]
    ELSE c

\* f"{platform}.{name}".lower().replace(" ", "_")
EntityId(platform, name) ==
  LET raw == PlatformChars(platform) \o <<".">> \o name
  IN [i \in 1..Len(raw) |-> IF LowerChar(raw[i]) = " " THEN "_" ELSE LowerChar(raw[i])]

EntityKeys == {EntityId(t, n) : t \in Platforms, n \in Names \cup PairNames}

Range(f) == {f[i] : i \in DOMAIN f}

(***************************************************************************)
(* Entities: SN2SwitchPlug and SN2Light.                                   *)
(***************************************************************************)
NoEntity == [is_on |-> FALSE, brightness |-> 0, available |-> FALSE]

\* SN2SwitchPlug.__init__ (a switch has no brightness: 0 stands for none)
SN2SwitchPlug(device_available) ==
  [is_on |-> FALSE, brightness |-> 0, available |-> device_available]

\* SN2Light.__init__
SN2Light(device_available) ==
  [is_on |-> FALSE, brightness |-> INIT_BRIGHTNESS, available |-> device_available]

\* entity.set_available(v): the entity afterwards
set_available(ent, v) ==
  IF ent.available # v THEN [ent EXCEPT !.available = v] ELSE ent

\* a variant that writes the state on every call
set_available_writes_always(ent, v) == TRUE

\* entity.set_available(v) calls async_write_ha_state
set_available_writes(ent, v) == ent.available # v

(***************************************************************************)
(* __init__.py: set_device_availability                                    *)
(***************************************************************************)
\* a variant that tells the entities only when the device becomes available
AvailabilityFanOutUpOnly(id, v) ==
  IF available[id] # v /\ v THEN Range(entities[id]) ELSE {}

\* the entities the call reaches
AvailabilityFanOut(id, v) ==
  IF available[id] # v THEN Range(entities[id]) ELSE {}

set_device_availability(id, v) ==
  LET reached == AvailabilityFanOut(id, v)
      written == {e \in reached : set_available_writes(entity[e], v)}
  IN /\ available' = [available EXCEPT ![id] = v]
     /\ entity' = [e \in EntryIds |->
                     IF e \in reached THEN set_available(entity[e], v) ELSE entity[e]]
     /\ ha_state' = [e \in EntryIds |->
                       IF e \in written THEN set_available(entity[e], v) ELSE ha_state[e]]
     /\ writes' = [e \in EntryIds |-> IF e \in written THEN 1 ELSE 0]

NoWrites == [e \in EntryIds |-> 0]

(***************************************************************************)
(* __init__.py: start_websocket_client, the connect and receive loop.      *)
(* Its suspension points: websockets.connect ("connecting"), the login     *)
(* send ("login"), websocket.recv ("recv"), asyncio.sleep(30) ("sleep").   *)
(***************************************************************************)
LoginFrame == [type |-> "login", value |-> 0]

TaskRuns(id) == task_pc[id] \notin {"none", "cancelled"} /\ ~cancel_req[id]

\* top of "while True": mark unavailable, call websockets.connect
BeginAttempt(id) ==
  /\ id \in hass_data
  /\ set_device_availability(id, FALSE)
  /\ task_pc' = [task_pc EXCEPT ![id] = "connecting"]
  /\ UNCHANGED <<flowVars, fnVars, haVars, dev_type, ws_client, entities, cancel_req,
                 conn_open, sent, cmd, downVars>>

\* the task created by asyncio.create_task runs for the first time
TaskStart(id) ==
  /\ TaskRuns(id)
  /\ task_pc[id] = "start"
  /\ BeginAttempt(id)

\* a variant in which the loop ends after the wait instead of trying again
SleepDoneGivesUp(id) ==
  /\ TaskRuns(id)
  /\ task_pc[id] = "sleep"
  /\ task_pc' = [task_pc EXCEPT ![id] = "done"]
  /\ writes' = NoWrites
  /\ UNCHANGED <<flowVars, fnVars, haVars, infoVars, cancel_req, conn_open, sent,
                 entity, ha_state, cmd, downVars>>

\* asyncio.sleep(30) returns
SleepDone(id) ==
  /\ TaskRuns(id)
  /\ task_pc[id] = "sleep"
  /\ BeginAttempt(id)

\* websockets.connect succeeded: store the handle, mark available, send login
ConnectOK(id) ==
  /\ TaskRuns(id)
  /\ task_pc[id] = "connecting"
  /\ id \in hass_data
  /\ ws_client' = [ws_client EXCEPT ![id] = "websocket"]
  /\ conn_open' = [conn_open EXCEPT ![id] = TRUE]
  /\ sent' = [sent EXCEPT ![id] = <<>>]
  /\ cmd' = [cmd EXCEPT ![id].conn = IF @ = "latest" THEN "older" ELSE @]
  /\ set_device_availability(id, TRUE)
  /\ task_pc' = [task_pc EXCEPT ![id] = "login"]
  /\ UNCHANGED <<flowVars, fnVars, haVars, dev_type, entities, cancel_req, downVars>>

\* a variant that clears the handle but leaves the availability alone
ConnectionErrorKeepsAvailable(id) ==
  /\ id \in hass_data
  /\ ws_client' = [ws_client EXCEPT ![id] = "None"]
  /\ writes' = NoWrites
  /\ UNCHANGED <<available, entity, ha_state>>
  /\ task_pc' = [task_pc EXCEPT ![id] = "sleep"]

\* "except (OSError, WebSocketException)": clear the handle, mark unavailable
ConnectionError(id) ==
  /\ id \in hass_data
  /\ ws_client' = [ws_client EXCEPT ![id] = "None"]
  /\ set_device_availability(id, FALSE)
  /\ task_pc' = [task_pc EXCEPT ![id] = "sleep"]

\* websockets.connect raised
ConnectFail(id) ==
  /\ TaskRuns(id)
  /\ task_pc[id] = "connecting"
  /\ ConnectionError(id)
  /\ UNCHANGED <<flowVars, fnVars, haVars, dev_type, entities, cancel_req, conn_open, sent, cmd, downVars>>

\* websocket.send(login) returned
LoginSent(id) ==
  /\ TaskRuns(id)
  /\ task_pc[id] = "login"
  /\ conn_open[id]
  /\ sent' = [sent EXCEPT ![id] = Append(@, LoginFrame)]
  /\ task_pc' = [task_pc EXCEPT ![id] = "recv"]
  /\ writes' = NoWrites
  /\ UNCHANGED <<flowVars, fnVars, haVars, infoVars, cancel_req, conn_open,
                 entity, ha_state, cmd, downVars>>

\* websocket.send(login) raised ConnectionClosed: the connection was lost first
LoginFail(id) ==
  /\ TaskRuns(id)
  /\ task_pc[id] = "login"
  /\ ~conn_open[id]
  /\ ConnectionError(id)
  /\ UNCHANGED <<flowVars, fnVars, haVars, dev_type, entities, cancel_req, conn_open, sent, cmd, downVars>>

\* a variant that reconnects at once after a closed connection
RecvClosedNoWait(id) ==
  /\ TaskRuns(id)
  /\ task_pc[id] = "recv"
  /\ ~conn_open[id]
  /\ id \in hass_data
  /\ set_device_availability(id, FALSE)
  /\ task_pc' = [task_pc EXCEPT ![id] = "connecting"]
  /\ UNCHANGED <<flowVars, fnVars, haVars, dev_type, ws_client, entities, cancel_req,
                 conn_open, sent, cmd, downVars>>

\* websocket.recv() raised ConnectionClosed: mark unavailable, break, sleep
RecvClosed(id) ==
  /\ TaskRuns(id)
  /\ task_pc[id] = "recv"
  /\ ~conn_open[id]
  /\ id \in hass_data
  /\ set_device_availability(id, FALSE)
  /\ task_pc' = [task_pc EXCEPT ![id] = "sleep"]
  /\ UNCHANGED <<flowVars, fnVars, haVars, dev_type, ws_client, entities, cancel_req,
                 conn_open, sent, cmd, downVars>>

\* the device or the network closes the open connection
PeerClose(id) ==
  /\ conn_open[id]
  /\ conn_open' = [conn_open EXCEPT ![id] = FALSE]
  /\ writes' = NoWrites
  /\ UNCHANGED <<flowVars, fnVars, haVars, infoVars, task_pc, cancel_req, sent,
                 entity, ha_state, cmd, downVars>>

\* CancelledError is delivered at the suspension point; inside "async with"
\* the connection is closed on the way out
TaskCancelled(id) ==
  /\ cancel_req[id]
  /\ task_pc[id] \notin {"none", "cancelled"}
  /\ conn_open' = [conn_open EXCEPT ![id] =
                     IF task_pc[id] \in {"login", "recv"} THEN FALSE ELSE @]
  /\ task_pc' = [task_pc EXCEPT ![id] = "cancelled"]
  /\ cancel_req' = [cancel_req EXCEPT ![id] = FALSE]
  /\ writes' = NoWrites
  /\ UNCHANGED <<flowVars, fnVars, haVars, infoVars, sent, entity, ha_state, cmd, downVars>>

(***************************************************************************)
(* Numbers.  A finite float is an integer count of thousandths.            *)
(***************************************************************************)
Scale == 1000

\* a variant that drops the fraction
RoundTowardZero(num, den) == num \div den

\* Python round(num/den) for den > 0: to the nearest integer, ties to even
RoundHalfEven(num, den) ==
  LET q == num \div den
      r == num % den
  IN IF 2 * r > den THEN q + 1
     ELSE IF 2 * r < den THEN q
     ELSE IF q % 2 = 0 THEN q ELSE q + 1

Min(a, b) == IF a < b THEN a ELSE b
Max(a, b) == IF a > b THEN a ELSE b

(***************************************************************************)
(* Inbound frames.  json: what json.loads makes of the text; type: the     *)
(* "type" member; vk, vn: the "value" member, its kind and (for a number   *)
(* or a numeric string) its thousandths.                                   *)
(***************************************************************************)
InboundValues == {0, 1, 500, Scale, 0 - Scale}

InFrame(json, type, vk, vn) == [json |-> json, type |-> type, vk |-> vk, vn |-> vn]

StateFrames ==
  {InFrame("object", "state", "num", n) : n \in InboundValues} \cup
  {InFrame("object", "state", k, 0) : k \in {"missing", "null", "text", "nan", "inf"}}

InFrames ==
  {InFrame("invalid", "missing", "missing", 0), InFrame("array", "missing", "missing", 0)} \cup
  {InFrame("object", t, "missing", 0) : t \in {"missing", "other", "device_reset"}} \cup
  StateFrames

\* float(data.get("value", 0)): ok is FALSE where float() raises
FloatOfValue(f) ==
  IF f.vk = "missing" THEN [ok |-> TRUE, k |-> "num", n |-> 0]
  ELSE IF f.vk = "num" THEN [ok |-> TRUE, k |-> "num", n |-> f.vn]
  ELSE IF f.vk \in {"nan", "inf"} THEN [ok |-> TRUE, k |-> f.vk, n |-> 0]
  ELSE [ok |-> FALSE, k |-> f.vk, n |-> 0]

\* a variant that takes only a positive number for true
BoolOfFloatPositive(x) == x.k = "num" /\ x.n > 0

\* bool(state_value)
BoolOfFloat(x) == IF x.k = "num" THEN x.n # 0 ELSE TRUE

(***************************************************************************)
(* switch.py and light.py: handle_state_update.  The result: the entity    *)
(* afterwards, whether async_write_ha_state ran, whether it raised.        *)
(***************************************************************************)
Handled(ent, wrote, raised) == [ent |-> ent, wrote |-> wrote, raised |-> raised]

Switch_handle_state_update(ent, state) ==
  Handled([ent EXCEPT !.is_on = state], TRUE, FALSE)

\* min(255, max(0, round(brightness_value * 255)))
LightBrightness(n) ==
  Min(HA_MAX_BRIGHTNESS, Max(0, RoundHalfEven(n * HA_MAX_BRIGHTNESS, Scale)))

\* a variant that also zeroes the brightness when the value is 0
Light_handle_state_update_zeroing(ent, state) ==
  IF state.k = "num" /\ state.n = 0
    THEN Handled([ent EXCEPT !.is_on = FALSE, !.brightness = 0], TRUE, FALSE)
  ELSE IF state.k = "num"
    THEN Handled([ent EXCEPT !.is_on = TRUE, !.brightness = LightBrightness(state.n)],
                 TRUE, FALSE)
  ELSE Handled([ent EXCEPT !.is_on = TRUE], FALSE, TRUE)

\* state: a float [k, n]; process_message never passes a bool
Light_handle_state_update(ent, state) ==
  IF state.k = "num" /\ state.n = 0
    THEN Handled([ent EXCEPT !.is_on = FALSE], TRUE, FALSE)
  ELSE IF state.k = "num"
    THEN Handled([ent EXCEPT !.is_on = TRUE, !.brightness = LightBrightness(state.n)],
                 TRUE, FALSE)
  \* round() of nan or inf raises after _attr_is_on was set
  ELSE Handled([ent EXCEPT !.is_on = TRUE], FALSE, TRUE)

(***************************************************************************)
(* The async_remove_entry tasks of an entry: how many are at each point.   *)
(* check: created, not run yet; wait_lock: inside async_remove, waiting    *)
(* for the setup lock; removing: inside async_remove, holding it; done:    *)
(* returned after the removal; warned: returned after the warning;         *)
(* raised: ended with UnknownEntry.                                        *)
(***************************************************************************)
TaskStates == {"check", "wait_lock", "removing", "done", "warned", "raised"}

NoTasks == [st \in TaskStates |-> 0]

TaskCount(tasks) ==
  tasks["check"] + tasks["wait_lock"] + tasks["removing"] + tasks["done"]
    + tasks["warned"] + tasks["raised"]

\* hass.async_create_task(async_remove_entry(hass, entry_id))
Created(tasks) == [tasks EXCEPT !["check"] = @ + 1]

\* one task goes from one point to another
Moved(tasks, from, to) == [tasks EXCEPT ![from] = @ - 1, ![to] = @ + 1]

(***************************************************************************)
(* __init__.py: process_message.  The result: the entity it reached        *)
(* ("none" when none), what handle_state_update made of it, whether a      *)
(* removal task was created, whether an exception was caught and logged,   *)
(* whether one escaped to the receive loop.                                *)
(***************************************************************************)
Dispatched(target, h, reset, caught) ==
  [target |-> target, ent |-> h.ent, wrote |-> h.wrote, reset |-> reset,
   caught |-> caught \/ h.raised, escaped |-> FALSE]

NotDispatched(reset, caught) ==
  Dispatched("none", Handled(NoEntity, FALSE, FALSE), reset, caught)

process_message(id, f) ==
  IF f.json = "invalid" THEN NotDispatched(FALSE, TRUE)      \* JSONDecodeError
  ELSE IF id \notin hass_data THEN NotDispatched(FALSE, TRUE) \* KeyError
  ELSE IF f.json # "object" THEN NotDispatched(FALSE, TRUE)  \* no data.get
  ELSE IF f.type = "device_reset" THEN NotDispatched(TRUE, FALSE)
  ELSE IF f.type # "state" THEN NotDispatched(FALSE, FALSE)
  ELSE IF ~FloatOfValue(f).ok THEN NotDispatched(FALSE, TRUE) \* TypeError, ValueError
  ELSE IF dev_type[id] \notin Platforms THEN NotDispatched(FALSE, FALSE)
  ELSE LET target == registry[EntityId(dev_type[id], entry_data[id].name)]
       IN IF target = "none" THEN NotDispatched(FALSE, FALSE)
          ELSE IF dev_type[id] = "switch"
            THEN Dispatched(target,
                            Switch_handle_state_update(entity[target],
                                                       BoolOfFloat(FloatOfValue(f))),
                            FALSE, FALSE)
          ELSE Dispatched(target,
                          Light_handle_state_update(entity[target], FloatOfValue(f)),
                          FALSE, FALSE)

\* websocket.recv() returned a frame: process_message, then recv again
Recv(id, f) ==
  LET r == process_message(id, f)
  IN /\ TaskRuns(id)
     /\ task_pc[id] = "recv"
     /\ conn_open[id]
     /\ f.type = "device_reset" => TaskCount(rm_tasks[id]) < MaxResets
     /\ UNCHANGED <<flowVars, fnVars, haVars, infoVars, cancel_req, conn_open,
                    sent, cmd, stop_pc, unload_pc>>
     /\ task_pc' = [task_pc EXCEPT ![id] = IF r.escaped THEN "crashed" ELSE "recv"]
     /\ rm_tasks' = [rm_tasks EXCEPT ![id] = IF r.reset THEN Created(@) ELSE @]
     /\ entity' = [e \in EntryIds |-> IF e = r.target THEN r.ent ELSE entity[e]]
     /\ ha_state' = [e \in EntryIds |->
                       IF e = r.target /\ r.wrote THEN r.ent ELSE ha_state[e]]
     /\ writes' = [e \in EntryIds |-> IF e = r.target /\ r.wrote THEN 1 ELSE 0]

(***************************************************************************)
(* switch.py and light.py: the intents and _send_command.                  *)
(***************************************************************************)
BrightnessArgs == {0, 1, 128, HA_MAX_BRIGHTNESS}
NoBrightness == 0 - 1

Intents ==
  {[op |-> o, brightness |-> NoBrightness] : o \in {"turn_on", "turn_off", "toggle"}} \cup
  {[op |-> "turn_on", brightness |-> b] : b \in BrightnessArgs}

\* round(brightness / 255, 2), in thousandths; b * 100 / 255 is never a tie
Round2(b) == 10 * RoundHalfEven(b * 100, HA_MAX_BRIGHTNESS)

\* the "value" of the command an intent sends
Switch_command(intent) ==
  IF intent.op = "turn_on" THEN Scale
  ELSE IF intent.op = "turn_off" THEN 0
  ELSE 0 - Scale

\* a variant that sends "on" for a turn_on without brightness
Light_command_plain_on(intent) ==
  IF intent.op = "turn_on"
    THEN IF intent.brightness # NoBrightness THEN Round2(intent.brightness) ELSE Scale
  ELSE IF intent.op = "turn_off" THEN 0
  ELSE 0 - Scale

Light_command(intent) ==
  IF intent.op = "turn_on"
    THEN IF intent.brightness # NoBrightness THEN Round2(intent.brightness) ELSE 0 - Scale
  ELSE IF intent.op = "turn_off" THEN 0
  ELSE 0 - Scale

CommandFrame(v) == [type |-> "state", value |-> v]

\* conn: the connection "websocket" was read from the handle: "latest", the one
\* the task opened last, or "older", one it opened before (and has closed)
Idle(last) == [pc |-> "idle", conn |-> "none", value |-> 0, last |-> last]

\* a variant that keeps the command for later when there is no handle
SendCommandQueued(e, v) ==
  /\ cmd' = [cmd EXCEPT ![e] =
               [pc |-> "sending", conn |-> "latest", value |-> v, last |-> "none"]]
  /\ UNCHANGED <<entity, ha_state, sent>>

\* a variant that sets is_on from the command before the device confirms it
SendCommandOptimistic(e, v) ==
  /\ cmd' = [cmd EXCEPT ![e] =
               IF ws_client[e] = "None" THEN Idle("dropped")
               ELSE [pc |-> "sending", conn |-> "latest", value |-> v, last |-> "none"]]
  /\ entity' = [entity EXCEPT ![e].is_on = (v # 0)]
  /\ UNCHANGED <<ha_state, sent>>

\* async_turn_on, async_turn_off, async_toggle up to "await websocket.send":
\* with no handle the command is logged and dropped
SendCommand(e, v) ==
  /\ cmd' = [cmd EXCEPT ![e] =
               IF ws_client[e] = "None" THEN Idle("dropped")
               ELSE [pc |-> "sending", conn |-> "latest", value |-> v, last |-> "none"]]
  /\ UNCHANGED <<entity, ha_state, sent>>

Intent(e, intent) ==
  /\ e \in hass_data
  /\ dev_type[e] \in Platforms
  /\ cmd[e].pc = "idle"
  /\ Len(sent[e]) < MaxSent
  /\ dev_type[e] = "switch" => intent.brightness = NoBrightness
  /\ SendCommand(e, IF dev_type[e] = "switch" THEN Switch_command(intent)
                    ELSE Light_command(intent))
  /\ writes' = NoWrites
  /\ UNCHANGED <<flowVars, fnVars, haVars, infoVars, taskVars, downVars>>

\* a variant in which a command's frame can overtake the pending login
SendOKBeforeLogin(e) ==
  /\ cmd[e].pc = "sending"
  /\ cmd[e].conn = "latest" /\ conn_open[e]
  /\ sent' = [sent EXCEPT ![e] = Append(@, CommandFrame(cmd[e].value))]
  /\ cmd' = [cmd EXCEPT ![e] = Idle("sent")]
  /\ writes' = NoWrites
  /\ UNCHANGED <<flowVars, fnVars, haVars, infoVars, task_pc, cancel_req, conn_open,
                 entity, ha_state, downVars>>

\* websocket.send returned: the frame is on the wire.  Frames go out in the
\* order of the send calls, so not while the login send is still pending.
SendOK(e) ==
  /\ cmd[e].pc = "sending"
  /\ cmd[e].conn = "latest" /\ conn_open[e]
  /\ task_pc[e] # "login"
  /\ sent' = [sent EXCEPT ![e] = Append(@, CommandFrame(cmd[e].value))]
  /\ cmd' = [cmd EXCEPT ![e] = Idle("sent")]
  /\ writes' = NoWrites
  /\ UNCHANGED <<flowVars, fnVars, haVars, infoVars, task_pc, cancel_req, conn_open,
                 entity, ha_state, downVars>>

\* "except websockets.exceptions.ConnectionClosed": self.set_available(False)
SendClosed(e) ==
  /\ cmd[e].pc = "sending"
  /\ cmd[e].conn = "older" \/ ~conn_open[e]
  /\ entity' = [entity EXCEPT ![e] = set_available(@, FALSE)]
  /\ ha_state' = [ha_state EXCEPT ![e] =
                    IF set_available_writes(entity[e], FALSE)
                      THEN set_available(entity[e], FALSE) ELSE @]
  /\ writes' = [x \in EntryIds |->
                  IF x = e /\ set_available_writes(entity[e], FALSE) THEN 1 ELSE 0]
  /\ cmd' = [cmd EXCEPT ![e] = Idle("closed")]
  /\ UNCHANGED <<flowVars, fnVars, haVars, infoVars, taskVars, downVars>>

\* a variant that treats every send error as a closed connection
SendErrorDemotes(e) ==
  /\ cmd[e].pc = "sending"
  /\ entity' = [entity EXCEPT ![e] = set_available(@, FALSE)]
  /\ ha_state' = [ha_state EXCEPT ![e] =
                    IF set_available_writes(entity[e], FALSE)
                      THEN set_available(entity[e], FALSE) ELSE @]
  /\ writes' = [x \in EntryIds |->
                  IF x = e /\ set_available_writes(entity[e], FALSE) THEN 1 ELSE 0]
  /\ cmd' = [cmd EXCEPT ![e] = Idle("error")]
  /\ UNCHANGED <<flowVars, fnVars, haVars, infoVars, taskVars, downVars>>

\* "except Exception": logged, nothing else
SendError(e) ==
  /\ cmd[e].pc = "sending"
  /\ cmd' = [cmd EXCEPT ![e] = Idle("error")]
  /\ writes' = NoWrites
  /\ UNCHANGED <<flowVars, fnVars, haVars, infoVars, taskVars, entity, ha_state, downVars>>

(***************************************************************************)
(* __init__.py: stop_websocket_client, the EVENT_HOMEASSISTANT_STOP        *)
(* listener.  Suspension points: "await ws_task" and "await close()".      *)
(***************************************************************************)
\* ws_task.cancel(): a request, unless the task is already done
CancelTask(id) ==
  cancel_req' = [cancel_req EXCEPT ![id] = task_pc[id] \notin {"none", "cancelled"}]

\* the last line: set_device_availability(False), which looks the entry up again
StopFinish(id) ==
  IF id \in hass_data
    THEN /\ set_device_availability(id, FALSE)
         /\ stop_pc' = [stop_pc EXCEPT ![id] = "done"]
    ELSE /\ stop_pc' = [stop_pc EXCEPT ![id] = "raised"]     \* KeyError
         /\ writes' = NoWrites
         /\ UNCHANGED <<available, entity, ha_state>>

\* the event fires: look the entry up, cancel the task, await it
StopStart(id) ==
  /\ stop_pc[id] = "armed"
  /\ IF id \in hass_data
       THEN /\ CancelTask(id)
            /\ stop_pc' = [stop_pc EXCEPT ![id] = "await_task"]
       ELSE /\ stop_pc' = [stop_pc EXCEPT ![id] = "raised"]  \* KeyError
            /\ UNCHANGED cancel_req
  /\ writes' = NoWrites
  /\ UNCHANGED <<flowVars, fnVars, haVars, infoVars, task_pc, conn_open, sent,
                 entity, ha_state, cmd, unload_pc, rm_tasks>>

\* the task has settled: close the handle if there is one, else finish
StopAfterTask(id) ==
  /\ stop_pc[id] = "await_task"
  /\ task_pc[id] = "cancelled"
  /\ IF ws_client[id] # "None"
       THEN /\ conn_open' = [conn_open EXCEPT ![id] = FALSE]
            /\ stop_pc' = [stop_pc EXCEPT ![id] = "closing"]
            /\ writes' = NoWrites
            /\ UNCHANGED <<available, entity, ha_state>>
       ELSE /\ StopFinish(id)
            /\ UNCHANGED conn_open
  /\ UNCHANGED <<flowVars, fnVars, haVars, dev_type, ws_client, entities, task_pc, cancel_req,
                 sent, cmd, unload_pc, rm_tasks>>

\* close() returned: clear the handle, mark unavailable
StopClosed(id) ==
  /\ stop_pc[id] = "closing"
  /\ ws_client' = [ws_client EXCEPT ![id] = "None"]
  /\ StopFinish(id)
  /\ UNCHANGED <<flowVars, fnVars, haVars, dev_type, entities, taskVars, cmd,
                 unload_pc, rm_tasks>>

(***************************************************************************)
(* __init__.py: async_unload_entry, run by Home Assistant under the        *)
(* entry's setup lock, for a user's unload or inside async_remove.         *)
(* Suspension points: "await ws_task", "await close()" and                 *)
(* "await async_unload_platforms".                                         *)
(***************************************************************************)
LockFree == "free"
LockUser == "user"
LockTask == "task"

\* look the entry up, cancel the task, await it
UnloadBegin(id, owner) ==
  /\ entry_lock' = [entry_lock EXCEPT ![id] = owner]
  /\ CancelTask(id)
  /\ unload_pc' = [unload_pc EXCEPT ![id] = "await_task"]

\* Home Assistant unloads the entry at the user's request
UserUnload(id) ==
  /\ id \in config_entries
  /\ entry_state[id] = "loaded"
  /\ entry_lock[id] = LockFree
  /\ UnloadBegin(id, LockUser)
  /\ writes' = NoWrites
  /\ UNCHANGED <<flowVars, fnVars, config_entries, entry_data, entry_state, hass_data, registry,
                 infoVars, task_pc, conn_open, sent, entity, ha_state, cmd, stop_pc, rm_tasks>>

\* the task has settled: close the handle if there is one (it is not cleared)
UnloadAfterTask(id) ==
  /\ unload_pc[id] = "await_task"
  /\ task_pc[id] = "cancelled"
  /\ conn_open' = [conn_open EXCEPT ![id] = IF ws_client[id] # "None" THEN FALSE ELSE @]
  /\ unload_pc' = [unload_pc EXCEPT ![id] =
                     IF ws_client[id] # "None" THEN "closing" ELSE "platforms"]
  /\ writes' = NoWrites
  /\ UNCHANGED <<flowVars, fnVars, haVars, infoVars, task_pc, cancel_req, sent,
                 entity, ha_state, cmd, stop_pc, rm_tasks>>

\* close() returned: unload the platforms
UnloadClosed(id) ==
  /\ unload_pc[id] = "closing"
  /\ unload_pc' = [unload_pc EXCEPT ![id] = "platforms"]
  /\ writes' = NoWrites
  /\ UNCHANGED <<flowVars, fnVars, haVars, infoVars, taskVars, entity, ha_state, cmd,
                 stop_pc, rm_tasks>>

\* async_unload_platforms returned unload_ok: pop the entry if it is true.
\* Home Assistant then records the entry's state, and async_remove deletes
\* the entry whatever unload_ok was.
UnloadDone(id, unload_ok) ==
  /\ unload_pc[id] = "platforms"
  /\ hass_data' = IF unload_ok THEN hass_data \ {id} ELSE hass_data
  /\ unload_pc' = [unload_pc EXCEPT ![id] = "done"]
  /\ entry_state' = [entry_state EXCEPT ![id] =
                       IF unload_ok THEN "not_loaded" ELSE "failed_unload"]
  /\ entry_lock' = [entry_lock EXCEPT ![id] = LockFree]
  /\ config_entries' = IF entry_lock[id] = LockTask THEN config_entries \ {id}
                       ELSE config_entries
  /\ rm_tasks' = [rm_tasks EXCEPT ![id] =
                    IF entry_lock[id] = LockTask THEN Moved(@, "removing", "done") ELSE @]
  /\ writes' = NoWrites
  /\ UNCHANGED <<flowVars, fnVars, entry_data, registry, infoVars, taskVars, entity, ha_state,
                 cmd, stop_pc>>

(***************************************************************************)
(* __init__.py: async_remove_entry, one task per device_reset message.     *)
(***************************************************************************)
\* one of the tasks runs: find the entry; if found call
\* hass.config_entries.async_remove, which takes the setup lock and unloads a
\* loaded entry before deleting it
RemoveEntry(id) ==
  /\ rm_tasks[id]["check"] > 0
  /\ IF id \notin config_entries
       THEN /\ rm_tasks' = [rm_tasks EXCEPT ![id] = Moved(@, "check", "warned")]
            /\ UNCHANGED <<config_entries, entry_lock, cancel_req, unload_pc>>
       ELSE IF entry_lock[id] # LockFree
         THEN /\ rm_tasks' = [rm_tasks EXCEPT ![id] = Moved(@, "check", "wait_lock")]
              /\ UNCHANGED <<config_entries, entry_lock, cancel_req, unload_pc>>
       ELSE IF entry_state[id] = "loaded"
         THEN /\ rm_tasks' = [rm_tasks EXCEPT ![id] = Moved(@, "check", "removing")]
              /\ UnloadBegin(id, LockTask)
              /\ UNCHANGED config_entries
       ELSE /\ rm_tasks' = [rm_tasks EXCEPT ![id] = Moved(@, "check", "done")]
            /\ config_entries' = config_entries \ {id}
            /\ UNCHANGED <<entry_lock, cancel_req, unload_pc>>
  /\ writes' = NoWrites
  /\ UNCHANGED <<flowVars, fnVars, entry_data, entry_state, hass_data, registry, infoVars,
                 task_pc, conn_open, sent, entity, ha_state,
                 cmd, stop_pc>>

\* async_remove got the lock after another holder: the entry is deleted if it
\* is still there, else async_unload raises UnknownEntry into the task
RemoveAfterLock(id) ==
  /\ rm_tasks[id]["wait_lock"] > 0
  /\ entry_lock[id] = LockFree
  /\ rm_tasks' = [rm_tasks EXCEPT ![id] =
                    Moved(@, "wait_lock", IF id \in config_entries THEN "done" ELSE "raised")]
  /\ config_entries' = config_entries \ {id}
  /\ writes' = NoWrites
  /\ UNCHANGED <<flowVars, fnVars, entry_data, entry_state, entry_lock, hass_data, registry,
                 infoVars, taskVars, entity, ha_state, cmd, stop_pc, unload_pc>>

(***************************************************************************)
(* Specifications.                                                         *)
(***************************************************************************)
NoSession ==
  /\ fn_call = {}
  /\ fn_result = {}
  /\ config_entries = {}
  /\ entry_data = [id \in EntryIds |-> [type |-> "none", name |-> <<>>]]
  /\ entry_state = [id \in EntryIds |-> "not_loaded"]
  /\ entry_lock = [id \in EntryIds |-> LockFree]
  /\ hass_data = {}
  /\ registry = [k \in EntityKeys |-> "none"]
  /\ ha_state = [id \in EntryIds |-> NoEntity]
  /\ writes = NoWrites
  /\ dev_type = [id \in EntryIds |-> "none"]
  /\ ws_client = [id \in EntryIds |-> "None"]
  /\ available = [id \in EntryIds |-> FALSE]
  /\ entities = [id \in EntryIds |-> <<>>]
  /\ task_pc = [id \in EntryIds |-> "none"]
  /\ cancel_req = [id \in EntryIds |-> FALSE]
  /\ conn_open = [id \in EntryIds |-> FALSE]
  /\ sent = [id \in EntryIds |-> <<>>]
  /\ entity = [id \in EntryIds |-> NoEntity]
  /\ cmd = [id \in EntryIds |-> Idle("none")]
  /\ stop_pc = [id \in EntryIds |-> "none"]
  /\ unload_pc = [id \in EntryIds |-> "idle"]
  /\ rm_tasks = [id \in EntryIds |-> NoTasks]

FlowInit ==
  /\ flow_entries = {}
  /\ flow_pending = {}
  /\ flow_result = {}
  /\ NoSession

\* zeroconf hands a service advertisement to the flow
Discover(info) ==
  /\ flow_pending = {}
  /\ flow_pending' = {info}
  /\ flow_result' = {}
  /\ UNCHANGED <<flow_entries, fnVars, haVars, infoVars, taskVars, entityVars, downVars>>

StepZeroconf ==
  \E info \in flow_pending :
    LET r == async_step_zeroconf(info, flow_entries)
    IN /\ flow_pending' = {}
       /\ flow_result' = {[info |-> info, result |-> r]}
       /\ flow_entries' =
            IF r.kind = "create_entry" THEN flow_entries \cup {r.data}
            ELSE IF r.reason = "already_configured"
              THEN UpdateHost(flow_entries, DeviceIdOf(info), info.host)
            ELSE flow_entries
       /\ UNCHANGED <<fnVars, haVars, infoVars, taskVars, entityVars, downVars>>

FlowNext ==
  \/ \E info \in DiscoveryInfos : Discover(info)
  \/ StepZeroconf

SpecFlow == FlowInit /\ [][FlowNext]_vars

(***************************************************************************)
(* _is_version_compatible called on its own, on every string of up to      *)
(* MaxVerLen characters of VersionChars and on the samples of Versions,    *)
(* against the minimum versions of MinVersions.                            *)
(***************************************************************************)
VersionChars == {"0", "1", "9", ".", "-", "+", "a", "_", " "}

StringsUpTo(n) == UNION {[1..k -> VersionChars] : k \in 0..n}

MinVersions ==
  { MIN_VERSION, <<"1">>, <<"0", ".", "1", "0">>, <<"0", ".", "0", ".", "1">>,
    <<"1", ".", "0", "-", "a">>, <<"a">>, <<>> }

VersionCalls ==
  {[version |-> v, min_version |-> m] :
     v \in StringsUpTo(MaxVerLen) \cup Versions, m \in MinVersions}

\* one call is pending, nothing else exists
Called(calls) ==
  /\ fn_call \in {{c} : c \in calls}
  /\ fn_result = {}
  /\ flow_entries = {}
  /\ flow_pending = {}
  /\ flow_result = {}
  /\ config_entries = {}
  /\ entry_data = [id \in EntryIds |-> [type |-> "none", name |-> <<>>]]
  /\ entry_state = [id \in EntryIds |-> "not_loaded"]
  /\ entry_lock = [id \in EntryIds |-> LockFree]
  /\ hass_data = {}
  /\ registry = [k \in EntityKeys |-> "none"]
  /\ ha_state = [id \in EntryIds |-> NoEntity]
  /\ writes = NoWrites
  /\ dev_type = [id \in EntryIds |-> "none"]
  /\ ws_client = [id \in EntryIds |-> "None"]
  /\ available = [id \in EntryIds |-> FALSE]
  /\ entities = [id \in EntryIds |-> <<>>]
  /\ task_pc = [id \in EntryIds |-> "none"]
  /\ cancel_req = [id \in EntryIds |-> FALSE]
  /\ conn_open = [id \in EntryIds |-> FALSE]
  /\ sent = [id \in EntryIds |-> <<>>]
  /\ entity = [id \in EntryIds |-> NoEntity]
  /\ cmd = [id \in EntryIds |-> Idle("none")]
  /\ stop_pc = [id \in EntryIds |-> "none"]
  /\ unload_pc = [id \in EntryIds |-> "idle"]
  /\ rm_tasks = [id \in EntryIds |-> NoTasks]

\* the call returns
Returned(results) ==
  /\ fn_call # {}
  /\ fn_call' = {}
  /\ fn_result' = results
  /\ UNCHANGED <<flowVars, haVars, infoVars, taskVars, entityVars, downVars>>

ReturnVersion ==
  Returned({[call |-> c, value |-> is_version_compatible(c.version, c.min_version)] :
              c \in fn_call})

SpecVersion == Called(VersionCalls) /\ [][ReturnVersion]_vars

(***************************************************************************)
(* The encoding of a light's turn_on and the decoding of a state value     *)
(* called on their own.  A decode call carries the float process_message   *)
(* passes on and the entity as it is before the call; an encode call       *)
(* carries the brightness argument, and what it encodes comes back as the  *)
(* value of a state message for the same entity.                           *)
(***************************************************************************)
RawLightValues == 0..Scale
RawSwitchValues == (0 - Scale)..Scale
PriorBrightness == {0, 1, 128, HA_MAX_BRIGHTNESS}
BrightnessRange == 0..HA_MAX_BRIGHTNESS

PriorEntities(type) ==
  {[is_on |-> o, brightness |-> b, available |-> a] :
     o \in BOOLEAN, a \in BOOLEAN,
     b \in IF type = "switch" THEN {0} ELSE PriorBrightness}

CodecCall(fn, type, ent, brightness, value) ==
  [fn |-> fn, type |-> type, ent |-> ent, brightness |-> brightness, value |-> value]

DecodeCalls ==
  {CodecCall("decode", "light", e, NoBrightness, n) :
     e \in PriorEntities("light"), n \in RawLightValues} \cup
  {CodecCall("decode", "switch", e, NoBrightness, n) :
     e \in PriorEntities("switch"), n \in RawSwitchValues}

EncodeCalls ==
  {CodecCall("encode", "light", e, b, 0) :
     e \in PriorEntities("light"), b \in BrightnessRange}

\* async_turn_on(brightness=b) computes the value; the device reports it back
EncodeLight ==
  /\ fn_call # {}
  /\ \A c \in fn_call : c.fn = "encode"
  /\ fn_call' = {[c EXCEPT !.fn = "decode",
                           !.value = Light_command([op |-> "turn_on",
                                                    brightness |-> c.brightness])] :
                   c \in fn_call}
  /\ UNCHANGED <<fn_result, flowVars, haVars, infoVars, taskVars, entityVars, downVars>>

\* process_message from the float on: handle_state_update of the entity
DecodeValue(c) ==
  LET x == FloatOfValue(InFrame("object", "state", "num", c.value))
  IN IF c.type = "switch"
       THEN Switch_handle_state_update(c.ent, BoolOfFloat(x))
       ELSE Light_handle_state_update(c.ent, x)

DecodeState ==
  /\ \A c \in fn_call : c.fn = "decode"
  /\ Returned({[call |-> c, value |-> DecodeValue(c)] : c \in fn_call})

CodecNext == EncodeLight \/ DecodeState

SpecCodec == Called(DecodeCalls \cup EncodeCalls) /\ [][CodecNext]_vars

\* the entity the platform's async_setup_entry constructs
NewEntity(type, device_available) ==
  IF type = "switch" THEN SN2SwitchPlug(device_available) ELSE SN2Light(device_available)

\* __init__.py async_setup_entry and the platform's async_setup_entry have run
\* for the entries in ids: device_info stored, the entity constructed,
\* registered and added, the task created, the stop listener registered
SetUp(ids, data) ==
  /\ fn_call = {}
  /\ fn_result = {}
  /\ config_entries = ids
  /\ entry_data = data
  /\ entry_state = [id \in EntryIds |-> IF id \in ids THEN "loaded" ELSE "not_loaded"]
  /\ entry_lock = [id \in EntryIds |-> LockFree]
  /\ hass_data = ids
  /\ registry = [k \in EntityKeys |->
                   IF \E id \in ids : k = EntityId(data[id].type, data[id].name)
                     THEN CHOOSE id \in ids : k = EntityId(data[id].type, data[id].name)
                     ELSE "none"]
  /\ entity = [id \in EntryIds |->
                 IF id \in ids THEN NewEntity(data[id].type, FALSE) ELSE NoEntity]
  /\ ha_state = entity
  /\ writes = NoWrites
  /\ dev_type = [id \in EntryIds |-> data[id].type]
  /\ ws_client = [id \in EntryIds |-> "None"]
  /\ available = [id \in EntryIds |-> FALSE]
  /\ entities = [id \in EntryIds |-> IF id \in ids THEN <<id>> ELSE <<>>]
  /\ task_pc = [id \in EntryIds |-> IF id \in ids THEN "start" ELSE "none"]
  /\ cancel_req = [id \in EntryIds |-> FALSE]
  /\ conn_open = [id \in EntryIds |-> FALSE]
  /\ sent = [id \in EntryIds |-> <<>>]
  /\ cmd = [id \in EntryIds |-> Idle("none")]
  /\ stop_pc = [id \in EntryIds |-> IF id \in ids THEN "armed" ELSE "none"]
  /\ unload_pc = [id \in EntryIds |-> "idle"]
  /\ rm_tasks = [id \in EntryIds |-> NoTasks]

\* one entry, of either type the flow creates
Init ==
  /\ flow_entries = {}
  /\ flow_pending = {}
  /\ flow_result = {}
  /\ \E t \in Platforms, n \in Names :
       SetUp({"e1"}, [id \in EntryIds |->
                        IF id = "e1" THEN [type |-> t, name |-> n]
                        ELSE [type |-> "none", name |-> <<>>]])

Next ==
  \E id \in EntryIds :
    \/ TaskStart(id)
    \/ SleepDone(id)
    \/ ConnectOK(id)
    \/ ConnectFail(id)
    \/ LoginSent(id)
    \/ LoginFail(id)
    \/ \E f \in InFrames : Recv(id, f)
    \/ RecvClosed(id)
    \/ PeerClose(id)
    \/ TaskCancelled(id)
    \/ \E i \in Intents : Intent(id, i)
    \/ SendOK(id)
    \/ SendClosed(id)
    \/ SendError(id)
    \/ StopStart(id)
    \/ StopAfterTask(id)
    \/ StopClosed(id)
    \/ UserUnload(id)
    \/ UnloadAfterTask(id)
    \/ UnloadClosed(id)
    \/ \E ok \in BOOLEAN : UnloadDone(id, ok)
    \/ RemoveEntry(id)
    \/ RemoveAfterLock(id)

Spec == Init /\ [][Next]_vars

(***************************************************************************)
(* Two entries side by side, set up, connected, receiving state messages,  *)
(* unloaded and set up again.                                              *)
(***************************************************************************)
\* the entries exist, none is set up yet
PairInit ==
  /\ flow_entries = {}
  /\ flow_pending = {}
  /\ flow_result = {}
  /\ fn_call = {}
  /\ fn_result = {}
  /\ config_entries = EntryIds
  /\ entry_data \in [EntryIds -> [type : Platforms, name : PairNames]]
  /\ entry_state = [id \in EntryIds |-> "not_loaded"]
  /\ entry_lock = [id \in EntryIds |-> LockFree]
  /\ hass_data = {}
  /\ registry = [k \in EntityKeys |-> "none"]
  /\ ha_state = [id \in EntryIds |-> NoEntity]
  /\ writes = NoWrites
  /\ dev_type = [id \in EntryIds |-> "none"]
  /\ ws_client = [id \in EntryIds |-> "None"]
  /\ available = [id \in EntryIds |-> FALSE]
  /\ entities = [id \in EntryIds |-> <<>>]
  /\ task_pc = [id \in EntryIds |-> "none"]
  /\ cancel_req = [id \in EntryIds |-> FALSE]
  /\ conn_open = [id \in EntryIds |-> FALSE]
  /\ sent = [id \in EntryIds |-> <<>>]
  /\ entity = [id \in EntryIds |-> NoEntity]
  /\ cmd = [id \in EntryIds |-> Idle("none")]
  /\ stop_pc = [id \in EntryIds |-> "none"]
  /\ unload_pc = [id \in EntryIds |-> "idle"]
  /\ rm_tasks = [id \in EntryIds |-> NoTasks]

\* __init__.py async_setup_entry and the platform's async_setup_entry for one
\* entry: device_info stored, the entity constructed, registered under its
\* synthesized identifier and added, the task created, the listener registered
SetupEntry(id) ==
  /\ id \in config_entries
  /\ entry_state[id] = "not_loaded"
  /\ entry_lock[id] = LockFree
  /\ entry_state' = [entry_state EXCEPT ![id] = "loaded"]
  /\ hass_data' = hass_data \cup {id}
  /\ registry' = [registry EXCEPT ![EntityId(entry_data[id].type, entry_data[id].name)] = id]
  /\ dev_type' = [dev_type EXCEPT ![id] = entry_data[id].type]
  /\ ws_client' = [ws_client EXCEPT ![id] = "None"]
  /\ available' = [available EXCEPT ![id] = FALSE]
  /\ entities' = [entities EXCEPT ![id] = <<id>>]
  /\ entity' = [entity EXCEPT ![id] = NewEntity(entry_data[id].type, FALSE)]
  /\ ha_state' = [ha_state EXCEPT ![id] = NewEntity(entry_data[id].type, FALSE)]
  /\ writes' = NoWrites
  /\ task_pc' = [task_pc EXCEPT ![id] = "start"]
  /\ cancel_req' = [cancel_req EXCEPT ![id] = FALSE]
  /\ conn_open' = [conn_open EXCEPT ![id] = FALSE]
  /\ sent' = [sent EXCEPT ![id] = <<>>]
  /\ cmd' = [cmd EXCEPT ![id] = Idle("none")]
  /\ stop_pc' = [stop_pc EXCEPT ![id] = "armed"]
  /\ unload_pc' = [unload_pc EXCEPT ![id] = "idle"]
  /\ UNCHANGED <<flowVars, fnVars, config_entries, entry_data, entry_lock, rm_tasks>>

\* the state messages the devices send here: off and on
PairFrames == {InFrame("object", "state", "num", n) : n \in {0, Scale}}

PairNext ==
  \E id \in EntryIds :
    \/ SetupEntry(id)
    \/ TaskStart(id)
    \/ ConnectOK(id)
    \/ LoginSent(id)
    \/ \E f \in PairFrames : Recv(id, f)
    \/ TaskCancelled(id)
    \/ UserUnload(id)
    \/ UnloadAfterTask(id)
    \/ UnloadClosed(id)
    \/ \E ok \in BOOLEAN : UnloadDone(id, ok)

SpecPair == PairInit /\ [][PairNext]_vars

(***************************************************************************)
(* The same behaviours under the scheduling the event loop gives the       *)
(* task: a task that can run is run, asyncio.sleep(30) returns,            *)
(* websockets.connect returns or raises (it has an open timeout), and      *)
(* recv() on a closed connection raises.  Nothing is assumed of recv() on  *)
(* an open connection, of the sends, or of the callers of the teardown.    *)
(***************************************************************************)
LoopFairness ==
  \A id \in EntryIds :
    /\ WF_vars(TaskStart(id))
    /\ WF_vars(SleepDone(id))
    /\ WF_vars(ConnectOK(id) \/ ConnectFail(id))
    /\ WF_vars(RecvClosed(id))

SpecLive == Init /\ [][Next]_vars /\ LoopFairness

(***************************************************************************)
(* Claims.                                                                 *)
(***************************************************************************)
Sessions == {id \in EntryIds : task_pc[id] # "none"}
Lights == {e \in Sessions : dev_type[e] = "light"}

\* C1 as stated: whenever a session is available, its connection handle is
\* stored and the login frame has already been sent on that connection.
C1_AvailableOnlyAfterLogin ==
  \A id \in Sessions :
    available[id] => ws_client[id] # "None" /\ LoginFrame \in Range(sent[id])

\* C1 as amended: whenever a session is available and its task has not been
\* cancelled, its connection handle is stored and the task has opened that
\* connection (it is at the login send or in the receive loop); the login frame
\* may still be unsent.
C1_AvailableOnlyWithHandle ==
  \A id \in Sessions :
    (available[id] /\ task_pc[id] # "cancelled") =>
      ws_client[id] # "None" /\ task_pc[id] \in {"login", "recv"}

\* C1 witness: a session is available while its login send is still pending.
C1_AvailableBeforeLogin ==
  \E id \in Sessions :
    available[id] /\ task_pc[id] = "login" /\ sent[id] = <<>> /\ conn_open[id]

\* C2 as stated: while the task is not connected (before its first attempt,
\* while connecting, during the 30 second sleep) no connection handle is stored.
C2_HandleOnlyWhileConnected ==
  \A id \in Sessions :
    task_pc[id] \in {"start", "connecting", "sleep"} => ws_client[id] = "None"

\* C3 as stated: once either teardown operation has completed, the task is
\* cancelled, no connection is open and the session is unavailable.
C3_TeardownLeavesUnavailable ==
  \A id \in Sessions :
    (stop_pc[id] = "done" \/ unload_pc[id] = "done") =>
      task_pc[id] = "cancelled" /\ ~conn_open[id] /\ ~available[id]

\* how many removal tasks of an entry found the entry and called async_remove
FoundEntry(id) ==
  rm_tasks[id]["removing"] + rm_tasks[id]["wait_lock"] + rm_tasks[id]["done"]
    + rm_tasks[id]["raised"]

\* C4 as stated: of the removal tasks of an entry at most one finds the entry
\* and removes it, the others log a warning, and none raises.
C4_RemovedOnce ==
  \A id \in EntryIds :
    /\ FoundEntry(id) <= 1
    /\ rm_tasks[id]["raised"] = 0

\* what C5 admits: a recognized model and a compatible version
Admissible(props) ==
  /\ "model" \in DOMAIN props
  /\ props.model \in SWITCH_MODELS \cup PLUG_MODELS \cup LIGHT_MODELS
  /\ "version" \in DOMAIN props
  /\ is_version_compatible(props.version, MIN_VERSION)

\* C5 as stated: a discovery of a device that is not configured yet creates an
\* entry if and only if its model is in one of the three sets and its version
\* is present and compatible; the entry's type is light for a dimmable-light
\* model and switch for a toggle-switch or plug-outlet model.
C5_AdmittedIffSupported ==
  \A fr \in flow_result :
    fr.result.reason # "already_configured" =>
      /\ fr.result.kind = "create_entry" <=> Admissible(fr.info.properties)
      /\ fr.result.kind = "create_entry" =>
           fr.result.data.type =
             IF fr.info.properties.model \in LIGHT_MODELS THEN "light" ELSE "switch"

CommandStep(e) ==
  \/ \E i \in Intents : Intent(e, i)
  \/ SendOK(e)
  \/ SendClosed(e)
  \/ SendError(e)

\* C7: a send that ends with a connection-closed error leaves the entity
\* unavailable, a send that ends with another error leaves its availability as
\* it was, and no command step makes an unavailable entity available.
C7_SendFailureDemotesOnly ==
  [][\A e \in Sessions :
       LET ended(outcome) ==
             cmd[e].pc = "sending" /\ cmd'[e].pc = "idle" /\ cmd'[e].last = outcome
       IN /\ ended("closed") => ~entity'[e].available
          /\ ended("error") => entity'[e].available = entity[e].available
          /\ (entity'[e].available => entity[e].available) \/ ~CommandStep(e)]_vars

\* C7 witness: a send failed on a closed connection and the entity is
\* unavailable while its session still counts as available.
C7_DemotedByClosedSend ==
  \E e \in Sessions :
    cmd[e].last = "closed" /\ ~entity[e].available /\ available[e]

\* C8: an intent called while no handle is stored transmits nothing, leaves no
\* command pending, returns normally, and leaves the entity as it was.
C8_NoHandleDropsCommand ==
  [][\A e \in Sessions : \A i \in Intents :
       (ws_client[e] = "None" /\ Intent(e, i)) =>
         /\ sent' = sent
         /\ cmd'[e] = Idle("dropped")
         /\ entity' = entity
         /\ ha_state' = ha_state]_vars

\* C8 witness: a command was dropped for want of a handle.
C8_CommandDropped ==
  \E e \in Sessions :
    ws_client[e] = "None" /\ cmd[e].last = "dropped" /\ sent[e] = <<>>

\* C9: no command step changes is_on or brightness, and a step that changes
\* either is the handling of an inbound state message.
C9_NoOptimisticMutation ==
  [][\A e \in Sessions :
       LET same == /\ entity'[e].is_on = entity[e].is_on
                   /\ entity'[e].brightness = entity[e].brightness
       IN same \/ (~CommandStep(e) /\ \E f \in StateFrames : Recv(e, f))]_vars

\* C9 witness: a command that turns the entity on was transmitted and the
\* entity is still off.
C9_SentButStillOff ==
  \E e \in Sessions :
    /\ cmd[e].last = "sent"
    /\ \E v \in {Scale, Round2(128)} : CommandFrame(v) \in Range(sent[e])
    /\ ~entity[e].is_on

\* the frames C10 calls bad: not an object, no or an unknown type, or a state
\* message whose value is null, not numeric or not finite
BadFrames ==
  {f \in InFrames :
     \/ f.json # "object"
     \/ f.type \notin {"state", "device_reset"}
     \/ f.type = "state" /\ f.vk \in {"null", "text", "nan", "inf"}}

\* C10 as stated: handling a bad frame leaves the task in the receive loop on
\* the same connection, the availability unchanged, and every entity's is_on
\* and brightness unchanged.
C10_BadFrameIgnored ==
  [][\A id \in Sessions : \A f \in BadFrames :
       Recv(id, f) =>
         /\ task_pc'[id] = "recv"
         /\ UNCHANGED <<available, ws_client, conn_open>>
         /\ \A e \in EntryIds :
              /\ entity'[e].is_on = entity[e].is_on
              /\ entity'[e].brightness = entity[e].brightness]_vars

\* C11: the task's points follow each other in a fixed cycle, so that a new
\* connection attempt begins only from the start or from the 30 second sleep,
\* every attempt, failed or closed in the receive loop, ends in one sleep, and
\* the sleep ends only in the next attempt; and the session is unavailable
\* whenever the task is before its first attempt, connecting or asleep.
C11_FixedCadence ==
  /\ [](\A id \in Sessions :
          task_pc[id] \in {"start", "connecting", "sleep"} => ~available[id])
  /\ [][\A id \in Sessions :
          \/ task_pc'[id] = task_pc[id]
          \/ task_pc'[id] = "cancelled"
          \/ task_pc[id] = "start" /\ task_pc'[id] = "connecting"
          \/ task_pc[id] = "connecting" /\ task_pc'[id] \in {"login", "sleep"}
          \/ task_pc[id] = "login" /\ task_pc'[id] \in {"recv", "sleep"}
          \/ task_pc[id] = "recv" /\ task_pc'[id] = "sleep"
          \/ task_pc[id] = "sleep" /\ task_pc'[id] = "connecting"]_vars

\* C11 witness: a connection was closed in the receive loop, the attempt after
\* the sleep failed, and the task sleeps again with the session unavailable.
C11_SleepsAfterClosedThenFailed ==
  \E id \in Sessions :
    /\ task_pc[id] = "sleep" /\ ws_client[id] = "None" /\ ~available[id]
    /\ LoginFrame \in Range(sent[id])
    /\ stop_pc[id] = "armed" /\ unload_pc[id] = "idle"

\* C12: an entity's state is written for its availability exactly when the
\* availability changes (a step that writes without a change is the handling
\* of a state message); an entity becomes available only in the step of a
\* successful connect; and the receive loop's connection-closed step leaves
\* the session and its entity unavailable.
C12_AvailabilityIdempotent ==
  [][\A e \in Sessions :
       LET changed == entity'[e].available # entity[e].available
       IN /\ changed => writes'[e] = 1 /\ ha_state'[e].available = entity'[e].available
          /\ (~changed /\ writes'[e] = 1) => \E f \in StateFrames : Recv(e, f)
          /\ (changed /\ entity'[e].available) => ConnectOK(e)
          /\ (task_pc[e] = "recv" /\ task_pc'[e] = "sleep") =>
               ~available'[e] /\ ~entity'[e].available]_vars

\* C12 witness: the closed connection was seen by a failed send and by the
\* receive loop, the loop has re-entered connecting, and the entity is
\* unavailable with no further write.
C12_ClosedSeenTwice ==
  \E e \in Sessions :
    /\ cmd[e].last = "closed" /\ task_pc[e] = "connecting"
    /\ ws_client[e] = "websocket"
    /\ ~entity[e].available /\ ~ha_state[e].available /\ writes[e] = 0

(***************************************************************************)
(* The comparison C13 describes, written from its words.                   *)
(***************************************************************************)
DecimalDigits == {"0", "1", "2", "3", "4", "5", "6", "7", "8", "9"}

\* the string without its "-..." and "+..." suffix
RefStripped(str) ==
  LET cut == {i \in 1..Len(str) : str[i] \in {"-", "+"}}
  IN IF cut = {} THEN str
     ELSE SubSeq(str, 1, (CHOOSE i \in cut : \A j \in cut : i <= j) - 1)

\* the components between the dots
RefComponents(str) ==
  LET marks == {0, Len(str) + 1} \cup {i \in 1..Len(str) : str[i] = "."}
      Kth(k) == CHOOSE x \in marks : Cardinality({y \in marks : y < x}) = k - 1
  IN [k \in 1..(Cardinality(marks) - 1) |-> SubSeq(str, Kth(k) + 1, Kth(k + 1) - 1)]

\* a component is an integer: one or more decimal digits
RefIsInteger(c) == c # <<>> /\ \A i \in 1..Len(c) : c[i] \in DecimalDigits

RECURSIVE RefNumber(_)
RefNumber(c) ==
  IF c = <<>> THEN 0
  ELSE 10 * RefNumber(SubSeq(c, 1, Len(c) - 1))
         + (CHOOSE d \in 0..9 : Digits[d + 1] = c[Len(c)])

\* a >= b for component lists, the shorter one padded with zeros on the right
RefAtLeast(a, b) ==
  LET n == IF Len(a) > Len(b) THEN Len(a) ELSE Len(b)
      A == [i \in 1..n |-> IF i <= Len(a) THEN a[i] ELSE 0]
      B == [i \in 1..n |-> IF i <= Len(b) THEN b[i] ELSE 0]
  IN \/ \A i \in 1..n : A[i] = B[i]
     \/ \E i \in 1..n : A[i] > B[i] /\ \A j \in 1..(i - 1) : A[j] = B[j]

RefCompatible(version, min_version) ==
  LET a == RefComponents(RefStripped(version))
      b == RefComponents(RefStripped(min_version))
  IN /\ \A i \in 1..Len(a) : RefIsInteger(a[i])
     /\ \A i \in 1..Len(b) : RefIsInteger(b[i])
     /\ RefAtLeast([i \in 1..Len(a) |-> RefNumber(a[i])],
                   [i \in 1..Len(b) |-> RefNumber(b[i])])

\* C13 as stated: every call of is_version_compatible returns what the
\* reference comparison gives: suffixes stripped, split on ".", false when a
\* component is not an integer, zero-padded, then list comparison.
C13_MatchesReference ==
  \A r \in fn_result :
    r.value = RefCompatible(r.call.version, r.call.min_version)

(***************************************************************************)
(* C14                                                                     *)
(***************************************************************************)
\* the results of decoding a state value handed to a light directly
LightDecodes ==
  {r \in fn_result : r.call.type = "light" /\ r.call.brightness = NoBrightness}

\* the integer nearest to n * 255 / Scale, the even one of two equally near
C14_Nearest(n) ==
  CHOOSE b \in BrightnessRange :
    LET d == 2 * (Scale * b - HA_MAX_BRIGHTNESS * n)
    IN \/ 0 - Scale < d /\ d < Scale
       \/ d \in {Scale, 0 - Scale} /\ b % 2 = 0

\* C14 as stated: for every raw value r in [0,1] dispatched to a light and
\* every prior state of the light, after the update brightness is
\* clamp(round(r * 255), 0, 255) and is_on is (r # 0).
C14_DecodesEveryValue ==
  \A r \in LightDecodes :
    /\ r.value.ent.brightness = C14_Nearest(r.call.value)
    /\ r.value.ent.is_on = (r.call.value # 0)

\* C14 as amended: for every raw value r in [0,1] and every prior state,
\* after the update is_on is (r # 0); brightness is clamp(round(r * 255), 0,
\* 255) when r # 0 and is what it was before when r = 0.
C14_DecodesNonZero ==
  \A r \in LightDecodes :
    /\ r.value.ent.is_on = (r.call.value # 0)
    /\ r.call.value # 0 => r.value.ent.brightness = C14_Nearest(r.call.value)
    /\ r.call.value = 0 => r.value.ent.brightness = r.call.ent.brightness
    /\ r.value.ent.available = r.call.ent.available

\* the value 0.5 has turned a light that was off on, at brightness 128
C14_HalfDecoded ==
  \E r \in LightDecodes :
    /\ r.call.value = 500
    /\ ~r.call.ent.is_on
    /\ r.call.ent.brightness = INIT_BRIGHTNESS
    /\ r.value.ent.is_on
    /\ r.value.ent.brightness = 128

(***************************************************************************)
(* C15                                                                     *)
(***************************************************************************)
SwitchDecodes == {r \in fn_result : r.call.type = "switch"}

\* C15: for every state message with a numeric value s dispatched to a
\* switch, after the update is_on is (s # 0), whatever is_on was before;
\* nothing else of the entity changes.
C15_SwitchFollowsValue ==
  \A r \in SwitchDecodes :
    /\ r.value.ent.is_on = (r.call.value # 0)
    /\ r.value.ent.available = r.call.ent.available
    /\ r.value.ent.brightness = r.call.ent.brightness

\* the value -1 has turned on a switch that was off
C15_NegativeTurnsOn ==
  \E r \in SwitchDecodes :
    /\ r.call.value = 0 - Scale
    /\ ~r.call.ent.is_on
    /\ r.value.ent.is_on

(***************************************************************************)
(* C16                                                                     *)
(***************************************************************************)
\* the results of decoding what turn_on(brightness=b) encoded, b in 1..255
RoundTrips == {r \in fn_result : r.call.brightness \in 1..HA_MAX_BRIGHTNESS}

\* C16: for every brightness b in 1..255 and every prior state of the light,
\* decoding the value that turn_on(brightness=b) transmits as a state message
\* gives a brightness that differs from b by at most 1.
C16_RoundTripWithinOne ==
  \A r \in RoundTrips :
    r.value.ent.brightness - r.call.brightness \in {0 - 1, 0, 1}

(***************************************************************************)
(* C17                                                                     *)
(***************************************************************************)
\* b / 255 to the nearest hundredth, in thousandths (there are no ties)
C17_Fraction(b) ==
  10 * (CHOOSE h \in 0..100 :
          LET d == 2 * (HA_MAX_BRIGHTNESS * h - 100 * b)
          IN 0 - HA_MAX_BRIGHTNESS < d /\ d < HA_MAX_BRIGHTNESS)

\* the value the claim gives for an intent, in thousandths
C17_Value(type, intent) ==
  IF intent.op = "toggle" THEN 0 - Scale
  ELSE IF intent.op = "turn_off" THEN 0
  ELSE IF type = "switch" THEN Scale
  ELSE IF intent.brightness = NoBrightness THEN 0 - Scale
  ELSE C17_Fraction(intent.brightness)

\* C17: an intent called while a handle is stored starts one send of the
\* frame {type: "state", value: v} with v as the claim lists it: switch
\* turn_on 1, turn_off 0, toggle -1; light turn_on -1 without brightness and
\* round(b / 255, 2) with brightness b, turn_off 0, toggle -1.  A send that
\* completes puts exactly that one frame on the connection, and command
\* frames reach the connection in no other way.
C17_CommandEncoding ==
  [][\A e \in Sessions :
       \/ cmd'[e] = cmd[e] /\ sent'[e] = sent[e]
       \/ /\ \A i \in Intents :
               (ws_client[e] # "None" /\ Intent(e, i)) =>
                 /\ cmd'[e].pc = "sending"
                 /\ cmd'[e].value = C17_Value(dev_type[e], i)
                 /\ sent'[e] = sent[e]
          /\ (cmd[e].pc = "sending" /\ cmd'[e].pc = "idle" /\ cmd'[e].last = "sent") =>
               sent'[e] = Append(sent[e], [type |-> "state", value |-> cmd[e].value])
          /\ \/ sent'[e] = sent[e]
             \/ sent'[e] = <<>>
             \/ sent'[e] = Append(sent[e], LoginFrame)
             \/ cmd[e].pc = "sending" /\ cmd'[e].pc = "idle" /\ cmd'[e].last = "sent"]_vars

\* C17 witness: a light has transmitted, after the login, the one frame of
\* turn_on with brightness 128: value 0.5.
C17_HalfSent ==
  \E e \in Lights :
    /\ ws_client[e] # "None"
    /\ cmd[e].last = "sent"
    /\ sent[e] = <<LoginFrame, CommandFrame(500)>>

(***************************************************************************)
(* C18                                                                     *)
(***************************************************************************)
\* the teardown of the session has begun: its task is cancelled or about to be
TornDown(e) == cancel_req[e] \/ task_pc[e] = "cancelled"

\* C18: the connect loop ends only by cancellation; every failed attempt and
\* every closed connection puts the task in its wait, and unless the session
\* is torn down every wait is followed by another connection attempt, any
\* number of times; an attempt the transport accepts makes the session
\* available.
C18_RetriesForever ==
  /\ [](\A e \in EntryIds :
          task_pc[e] \in {"none", "start", "connecting", "login", "recv", "sleep",
                          "cancelled"})
  /\ [][\A e \in EntryIds :
          \/ task_pc'[e] = task_pc[e]
          \/ /\ task_pc'[e] = "cancelled" => cancel_req[e]
             /\ (ConnectFail(e) \/ LoginFail(e) \/ RecvClosed(e)) => task_pc'[e] = "sleep"
             /\ task_pc'[e] = "login" => available'[e]]_vars
  /\ \A e \in EntryIds :
       (task_pc[e] = "sleep") ~> (task_pc[e] = "connecting" \/ TornDown(e))

\* C18 witness: a command failed on a closed connection, and the session is
\* connected, logged in and available again.
C18_AvailableAgain ==
  \E e \in Sessions :
    /\ cmd[e].last = "closed"
    /\ task_pc[e] = "recv"
    /\ conn_open[e]
    /\ available[e]
    /\ entity[e].available
    /\ ~TornDown(e)

(***************************************************************************)
(* C19                                                                     *)
(***************************************************************************)
\* C19: on a connection the task has opened nothing is sent before the login
\* send returns; the login frame is then the first frame of the connection
\* and the only login frame on it; the task goes from the login send straight
\* to the receive loop, with no frame read for it; and an inbound frame is
\* dispatched only in the receive loop, after the login frame was sent.
C19_LoginFirst ==
  /\ [](\A e \in EntryIds :
          /\ task_pc[e] = "login" => sent[e] = <<>>
          /\ task_pc[e] = "recv" => sent[e] # <<>>
          /\ sent[e] # <<>> =>
               /\ sent[e][1] = [type |-> "login", value |-> 0]
               /\ \A k \in 2..Len(sent[e]) : sent[e][k].type = "state")
  /\ [][\A e \in EntryIds :
          /\ (task_pc'[e] = "login" /\ task_pc[e] # "login") =>
               task_pc[e] = "connecting" /\ sent'[e] = <<>>
          /\ (task_pc[e] = "login" /\ task_pc'[e] # "login") =>
               /\ task_pc'[e] \in {"recv", "sleep", "cancelled"}
               /\ task_pc'[e] = "recv" <=> sent'[e] = <<[type |-> "login", value |-> 0]>>
               /\ task_pc'[e] = "recv" => entity'[e] = entity[e] /\ rm_tasks'[e] = rm_tasks[e]
          /\ (\/ entity'[e].is_on # entity[e].is_on
              \/ entity'[e].brightness # entity[e].brightness
              \/ rm_tasks'[e]["check"] > rm_tasks[e]["check"]) =>
               task_pc[e] = "recv" /\ Head(sent[e]).type = "login"]_vars

\* C19 witness: on one connection the login frame and then a command frame
\* were sent, and a state message received on it has turned the entity on.
C19_LoginThenTraffic ==
  \E e \in Sessions :
    /\ task_pc[e] = "recv"
    /\ conn_open[e]
    /\ Len(sent[e]) = 2
    /\ sent[e][1].type = "login"
    /\ sent[e][2].type = "state"
    /\ entity[e].is_on

(***************************************************************************)
(* C20                                                                     *)
(***************************************************************************)
\* C20: the handling of an inbound frame writes the entity's state exactly
\* once when the frame is a state message handed to the located entity of
\* the session, and not at all when the frame is ignored; it writes no other
\* entity's state.
C20_NotifiedOncePerMessage ==
  [][\A e \in EntryIds :
       \/ task_pc[e] # "recv"
       \/ \A f \in InFrames :
            \/ ~Recv(e, f)
            \/ /\ writes'[e] = IF process_message(e, f).target = e THEN 1 ELSE 0
               /\ \A x \in EntryIds \ {e} : writes'[x] = 0]_vars

(***************************************************************************)
(* C21                                                                     *)
(***************************************************************************)
\* C21: with two sessions set up, the handling of a state message received
\* on one session leaves the entity of the other session as it was, whatever
\* the two device names are.
C21_SessionIsolation ==
  [][\A e \in EntryIds :
       \/ task_pc[e] # "recv"
       \/ \A x \in EntryIds \ {e} : entity'[x] = entity[x] /\ ha_state'[x] = ha_state[x]
       \/ \A f \in PairFrames : ~Recv(e, f)]_vars

(***************************************************************************)
(* C22                                                                     *)
(***************************************************************************)
\* C22: in every state the entity of a session is available only if the
\* session is, and a step that makes the two differ is the end of a send
\* that failed on a closed connection.
C22_EntityWithinSession ==
  /\ [](\A e \in Sessions : entity[e].available => available[e])
  /\ [][\A e \in Sessions :
          \/ entity'[e].available = available'[e]
          \/ entity[e].available # available[e]
          \/ cmd[e].pc = "sending" /\ cmd'[e] = Idle("closed")]_vars

\* C22 witness: after a teardown has begun, the entity is unavailable and
\* its session still counts as available.
C22_EntityBelowSession ==
  \E e \in Sessions :
    /\ ~entity[e].available
    /\ available[e]
    /\ cmd[e] = Idle("closed")
    /\ cancel_req[e]

(***************************************************************************)
(* C23                                                                     *)
(***************************************************************************)
\* C23: for every brightness b in 1..255 the value that turn_on(brightness=b)
\* transmits is greater than 0.
C23_TurnOnNeverOff ==
  \A c \in fn_call :
    (c.fn = "decode" /\ c.brightness \in 1..HA_MAX_BRIGHTNESS) => c.value > 0

(***************************************************************************)
(* C24                                                                     *)
(***************************************************************************)
\* C24: the stop listener of a session never ends with an exception, in
\* whatever state the event finds the session, an entry already unloaded
\* included; once it has ended the session is unavailable and holds no open
\* connection.
C24_StopNeverRaises ==
  \A id \in Sessions :
    /\ stop_pc[id] # "raised"
    /\ stop_pc[id] = "done" => ~available[id] /\ ~conn_open[id]

====
